---- MODULE Spec2Model ----
(***************************************************************************)
(* A model of the solitaire rules engine: the Card / Deck catalog shared   *)
(* by every Game, and the Game operations deal, clearUnfinished, move,     *)
(* getMovableCards and getFinalizedCards, with the JavaScript semantics    *)
(* they rely on (arrays that grow with holes when written past their end,  *)
(* TypeError on a property read of null/undefined, arrays shared between a *)
(* Game and its clone).                                                    *)
(***************************************************************************)
EXTENDS Integers, Sequences, FiniteSets, TLC

VARIABLES
    stock,   \* Game.stock of the current game: a JS array of cards
    rows,    \* Game.rows of the current game: 4 JS arrays of cards
    cards,   \* Card.row / Card.column of every card of Deck.CARDS (process-wide)
    deals,   \* Game.meta.deals of the current game
    call,    \* the last call made on the engine, its argument and whether it threw
    thisRows, \* the rows seen after the last call through the Game it was made on
    ncalls   \* number of calls made so far

vars == <<stock, rows, cards, deals, call, thisRows, ncalls>>

-----------------------------------------------------------------------------
(* Bounds of the exploration *)

\* the streams of Math.random values a shuffle may draw are those of seeds 0..MaxSeed
MaxSeed == 1
\* number of calls explored in a session of the player's calls
MaxCalls == 7
\* number of calls explored in a session that also moves cards not reported movable
MaxApiCalls == 4

-----------------------------------------------------------------------------
(* JavaScript values *)

null == -1
undefined == -2

\* arr[i] for a 0-based index: undefined outside the array and in a hole
At(arr, i) == IF i >= 0 /\ i < Len(arr) THEN arr[i + 1] ELSE undefined

\* arr[i] = x for a 0-based index: the array grows, leaving holes
SetAt(arr, i, x) ==
    IF i < Len(arr)
    THEN [arr EXCEPT ![i + 1] = x]
    ELSE [k \in 1..(i + 1) |-> IF k <= Len(arr) THEN arr[k] ELSE IF k = i + 1 THEN x ELSE undefined]

\* arr.slice(from)
SliceFrom(arr, from) == [k \in 1..(Len(arr) - from) |-> arr[from + k]]

\* arr.slice(0, to)
SliceTo(arr, to) == [k \in 1..to |-> arr[k]]

\* arr.indexOf(x)
IndexOf(arr, x) ==
    IF \E k \in 1..Len(arr) : arr[k] = x
    THEN (CHOOSE k \in 1..Len(arr) : arr[k] = x /\ \A m \in 1..(k - 1) : arr[m] # x) - 1
    ELSE -1

\* arr.filter(pred), for a set of kept values
Filter(arr, keep) == SelectSeq(arr, LAMBDA x : x \in keep)

-----------------------------------------------------------------------------
(* Card and Deck: the process-wide catalog *)

RANKS == <<"2", "3", "4", "5", "6", "7", "8", "9", "10", "J", "Q", "K">>
SUITS == <<"C", "D", "H", "S">>

\* Deck.CARDS, as (rank, suit) pairs in construction order; a card is its 0-based index
CARDS ==
    [k \in 1..(Len(SUITS) * Len(RANKS)) |->
        <<RANKS[((k - 1) % Len(RANKS)) + 1], SUITS[((k - 1) \div Len(RANKS)) + 1]>>]
    \o << <<"B1", "B">>, <<"B2", "B">>, <<"B3", "B">>, <<"B4", "B">> >>

Card == 0..(Len(CARDS) - 1)

rank(c) == CARDS[c + 1][1]
suit(c) == CARDS[c + 1][2]

makeKey(r, s) == <<r, s>>
key(c) == makeKey(rank(c), suit(c))

isBlank(c) == suit(c) = "B"

\* Deck.CARDS_BY_KEY.get(k)
CARDS_BY_KEY(k) ==
    IF \E c \in Card : key(c) = k THEN CHOOSE c \in Card : key(c) = k ELSE undefined

\* the static block with prevRank looked up under the key of nextRank
LinksPrevAsNext ==
    [c \in Card |->
        LET rankIndex == IndexOf(RANKS, rank(c))
            hasPrev == rankIndex - 1 >= 0 /\ rankIndex - 1 < Len(RANKS)
            hasNext == rankIndex + 1 >= 0 /\ rankIndex + 1 < Len(RANKS)
            next == IF hasNext THEN CARDS_BY_KEY(makeKey(RANKS[rankIndex + 2], suit(c))) ELSE undefined
        IN  [prevRank |-> IF hasPrev THEN next ELSE null,
             nextRank |-> IF hasNext THEN next ELSE null]]

\* The static block linking each card to its same-suit neighbours
Links ==
    [c \in Card |->
        LET rankIndex == IndexOf(RANKS, rank(c))
            hasPrev == rankIndex - 1 >= 0 /\ rankIndex - 1 < Len(RANKS)
            hasNext == rankIndex + 1 >= 0 /\ rankIndex + 1 < Len(RANKS)
        IN  [prevRank |-> IF hasPrev THEN CARDS_BY_KEY(makeKey(RANKS[rankIndex], suit(c))) ELSE null,
             nextRank |-> IF hasNext THEN CARDS_BY_KEY(makeKey(RANKS[rankIndex + 2], suit(c))) ELSE null]]

prevRank(c) == Links[c].prevRank
nextRank(c) == Links[c].nextRank

\* Deck.all()
all == [k \in 1..Len(CARDS) |-> k - 1]

\* Deck.getCardsByRank(r)
getCardsByRank(r) == Filter(all, {c \in Card : rank(c) = r})

\* Deck.getBlanks()
getBlanks == Filter(all, {c \in Card : isBlank(c)})

\* a value that is a card object (truthy), as opposed to null / undefined
IsCard(x) == x \in Card

-----------------------------------------------------------------------------
(* Math.random and shuffled *)

\* The stream of Math.random() values a shuffle draws, as 16-bit fractions
\* x / 65536; a seed selects the stream
RandomNext(x) == (x * 25173 + 13849) % 65536

\* floor(Math.random() * (i + 1)) for the draw x
RandomIndex(x, i) == (x * (i + 1)) \div 65536

\* The loop of shuffled from index i down to index stop + 1, on st = the array
\* so far and the last draw
shuffleLoop[st \in [arr : Seq(Int), x : Int], i \in Int, stop \in Int] ==
    IF i <= stop
    THEN st
    ELSE LET x1 == RandomNext(st.x)
             j == RandomIndex(x1, i)
             arr == st.arr
         IN  shuffleLoop[[arr |-> [arr EXCEPT ![i + 1] = arr[j + 1], ![j + 1] = arr[i + 1]], x |-> x1],
                         i - 1, stop]

\* The whole loop, i = length - 1 down to 1, run in stretches of 8 iterations
shuffleFrom[st \in [arr : Seq(Int), x : Int], i \in Int] ==
    IF i <= 0
    THEN st.arr
    ELSE LET stop == IF i > 8 THEN i - 8 ELSE 0
         IN  shuffleFrom[shuffleLoop[st, i, stop], stop]

\* shuffled(array): Fisher-Yates on a copy
shuffled(array, seed) ==
    shuffleFrom[[arr |-> array, x |-> RandomNext((seed * 33860 + 31677) % 65536)], Len(array) - 1]

\* extend(arr1, arr2)
extend(arr1, arr2) == arr1 \o arr2

-----------------------------------------------------------------------------
(* Game: queries.  R is the rows array, P the cards' row/column fields *)

\* const x = v; ... : the value v is computed once and named x in F
With(v, F(_)) == CHOOSE r \in {F(x) : x \in {v}} : TRUE

\* a set built with Set.add keeps insertion order and no duplicates
SetAdd(set, x) == IF \E k \in 1..Len(set) : set[k] = x THEN set ELSE Append(set, x)

RECURSIVE SetAddAll(_, _)
SetAddAll(set, xs) ==
    IF xs = <<>>
    THEN set
    ELSE With(SetAdd(set, Head(xs)), LAMBDA added : SetAddAll(added, Tail(xs)))

\* Game.cardToLeft(card), for a card whose row is not null
cardToLeft(R, P, c) == At(R[P[c].row + 1], P[c].column - 1)

\* Game.cardToRight(card), for a card whose row is not null
cardToRight(R, P, c) == At(R[P[c].row + 1], P[c].column + 1)

\* movable.add(two) for every two of Deck.getCardsByRank("2")
addTwos(movable) == With(getCardsByRank("2"), LAMBDA twos : SetAddAll(movable, twos))

\* the loop body with the blank's row tested where its column should be
movableBlankFirstRow(R, P, blank, movable) ==
    IF P[blank].row = null \/ P[blank].column = null
    THEN movable
    ELSE IF P[blank].row = 0
    THEN addTwos(movable)
    ELSE With(cardToLeft(R, P, blank), LAMBDA left :
           IF IsCard(left) /\ ~isBlank(left) /\ rank(left) # "K"
           THEN SetAdd(movable, nextRank(left))
           ELSE movable)

\* the body of the loop of getMovableCards for one blank
movableBlank(R, P, blank, movable) ==
    IF P[blank].row = null \/ P[blank].column = null
    THEN movable
    ELSE IF P[blank].column = 0
    THEN addTwos(movable)
    ELSE With(cardToLeft(R, P, blank), LAMBDA left :
           IF IsCard(left) /\ ~isBlank(left) /\ rank(left) # "K"
           THEN SetAdd(movable, nextRank(left))
           ELSE movable)

RECURSIVE movableLoop(_, _, _, _)
movableLoop(R, P, blanks, movable) ==
    IF blanks = <<>>
    THEN movable
    ELSE With(movableBlank(R, P, Head(blanks), movable),
              LAMBDA added : movableLoop(R, P, Tail(blanks), added))

\* Game.getMovableCards(): the Set, in insertion order
getMovableCards(R, P) == movableLoop(R, P, getBlanks, <<>>)

Elems(seq) == {seq[k] : k \in 1..Len(seq)}

\* The while loop of getFinalizedCards for one row: the set grows along the
\* successor chain; threw when cardToRight reads a row through a null row index
RECURSIVE finalizedWalk(_, _, _, _)
finalizedWalk(R, P, lastGoodCard, finalized) ==
    With(nextRank(lastGoodCard), LAMBDA next :
      IF ~IsCard(next)
      THEN [threw |-> FALSE, set |-> finalized]
      ELSE IF P[lastGoodCard].row = null
      THEN [threw |-> TRUE, set |-> finalized]
      ELSE IF next = cardToRight(R, P, lastGoodCard)
      THEN With(finalized \cup {next}, LAMBDA added : finalizedWalk(R, P, next, added))
      ELSE [threw |-> FALSE, set |-> finalized])

RECURSIVE finalizedRows(_, _, _, _)
finalizedRows(R, P, rowIndex, finalized) ==
    IF rowIndex >= Len(R)
    THEN [threw |-> FALSE, set |-> finalized]
    ELSE With(R[rowIndex + 1], LAMBDA row :
           IF Len(row) = 0
           THEN finalizedRows(R, P, rowIndex + 1, finalized)
           ELSE IF ~IsCard(row[1])
           THEN [threw |-> TRUE, set |-> finalized]
           ELSE IF rank(row[1]) # "2"
           THEN finalizedRows(R, P, rowIndex + 1, finalized)
           ELSE With(finalizedWalk(R, P, row[1], finalized \cup {row[1]}), LAMBDA walk :
                  IF walk.threw
                  THEN walk
                  ELSE finalizedRows(R, P, rowIndex + 1, walk.set)))

\* Game.getFinalizedCards(): the set, or threw
getFinalizedCards(R, P) == finalizedRows(R, P, 0, {})

-----------------------------------------------------------------------------
(* Game: operations.  Each yields the record [stock, rows, cards, threw] the *)
(* call leaves behind; a call that throws leaves what it had already written *)
(* to the arrays and cards it shares with the Game it was called on          *)

\* a copying clone: new Game([...this.stock], this.rows.map((r) => [...r]), {...this.meta})
_cloneCopying == [stock |-> "copy", rows |-> "copy", meta |-> "copy"]

\* Game._clone(): the Game it returns holds the stock, rows and meta objects of
\* the Game it is called on
_clone == [stock |-> "this", rows |-> "this", meta |-> "this"]

\* what a field of the Game a call was made on shows after the call, when the
\* field showed before and the call wrote after to that field of its clone
SeenThroughThis(ref, before, after) == IF ref = "this" THEN after ELSE before

Result(S, R, P, t) == [stock |-> S, rows |-> R, cards |-> P, threw |-> t]

\* the least element of a non-empty set of numbers
Least(set) == CHOOSE k \in set : \A m \in set : k <= m

\* the index of the first card of row that is not finalized, or Len(row)
firstUnfinished(row, finalizedCards) ==
    With({k \in 1..Len(row) : row[k] \notin finalizedCards}, LAMBDA unfinished :
      IF unfinished # {} THEN Least(unfinished) - 1 ELSE Len(row))

\* the first loop with the row cut one card late: row.slice(0, colIndex + 1)
RECURSIVE clearRowsKeepingOne(_, _, _, _)
clearRowsKeepingOne(S, R, rowIndex, finalizedCards) ==
    IF rowIndex >= Len(R)
    THEN [stock |-> S, rows |-> R]
    ELSE With(R[rowIndex + 1], LAMBDA row :
           With(firstUnfinished(row, finalizedCards), LAMBDA colIndex :
             IF colIndex < Len(row)
             THEN With([stock |-> extend(S, SliceFrom(row, colIndex)),
                        rows |-> [R EXCEPT ![rowIndex + 1] = SliceTo(row, colIndex + 1)]],
                       LAMBDA self :
                         clearRowsKeepingOne(self.stock, self.rows, rowIndex + 1, finalizedCards))
             ELSE clearRowsKeepingOne(S, R, rowIndex + 1, finalizedCards)))

\* the first loop of clearUnfinished: row tails go to the stock
RECURSIVE clearRows(_, _, _, _)
clearRows(S, R, rowIndex, finalizedCards) ==
    IF rowIndex >= Len(R)
    THEN [stock |-> S, rows |-> R]
    ELSE With(R[rowIndex + 1], LAMBDA row :
           With(firstUnfinished(row, finalizedCards), LAMBDA colIndex :
             IF colIndex < Len(row)
             THEN With([stock |-> extend(S, SliceFrom(row, colIndex)),
                        rows |-> [R EXCEPT ![rowIndex + 1] = SliceTo(row, colIndex)]],
                       LAMBDA self : clearRows(self.stock, self.rows, rowIndex + 1, finalizedCards))
             ELSE clearRows(S, R, rowIndex + 1, finalizedCards)))

\* the second loop of clearUnfinished: the cards of the stock lose their
\* position, up to the first entry that is no card
resetStock(S, P) ==
    With({k \in 1..Len(S) : ~IsCard(S[k])}, LAMBDA bad :
      With(IF bad = {} THEN Len(S) + 1 ELSE Least(bad), LAMBDA stop :
        With({S[k] : k \in 1..(stop - 1)}, LAMBDA reset :
          [cards |-> [c \in Card |-> IF c \in reset THEN [row |-> null, column |-> null] ELSE P[c]],
           threw |-> stop <= Len(S)])))

\* Game.clearUnfinished()
clearUnfinished(S, R, P) ==
    With(getFinalizedCards(R, P), LAMBDA finalizedCards :
      IF finalizedCards.threw
      THEN Result(S, R, P, TRUE)
      ELSE With(clearRows(S, R, 0, finalizedCards.set), LAMBDA self :
             With(resetStock(self.stock, P), LAMBDA reset :
               Result(self.stock, self.rows, reset.cards, reset.threw))))

\* a row of the deal holds 13 cards
RowLength == 13

\* the while loop of deal for one row: the shifts it makes, up to the row being
\* full or up to a shift that yields no card
dealRow(S, R, P, rowIndex) ==
    With(R[rowIndex + 1], LAMBDA row :
      With(IF Len(row) < RowLength THEN RowLength - Len(row) ELSE 0, LAMBDA wanted :
        With({k \in 1..wanted : ~IsCard(At(S, k - 1))}, LAMBDA bad :
          With(IF bad = {} THEN wanted ELSE Least(bad) - 1, LAMBDA taken :
            Result(SliceFrom(S, IF bad = {} THEN taken
                                ELSE IF taken + 1 < Len(S) THEN taken + 1 ELSE Len(S)),
                   [R EXCEPT ![rowIndex + 1] = row \o SliceTo(S, taken)],
                   [c \in Card |->
                      IF \E k \in 1..taken : S[k] = c
                      THEN [row |-> rowIndex,
                            column |-> Len(row) - 1
                                       + CHOOSE k \in 1..taken :
                                           S[k] = c /\ \A m \in (k + 1)..taken : S[m] # c]
                      ELSE P[c]],
                   bad # {})))))

\* the dealing loop of deal over the rows
RECURSIVE dealLoop(_, _, _, _)
dealLoop(S, R, P, rowIndex) ==
    IF rowIndex >= Len(R)
    THEN Result(S, R, P, FALSE)
    ELSE With(dealRow(S, R, P, rowIndex), LAMBDA self :
           IF self.threw
           THEN self
           ELSE dealLoop(self.stock, self.rows, self.cards, rowIndex + 1))

\* Game.deal(), with the stream the shuffle draws.  blocked: the call returned
\* this at once; dealt: the call got to count the deal
DealResult(S, R, P, threw, blocked, dealt) ==
    [stock |-> S, rows |-> R, cards |-> P, threw |-> threw, blocked |-> blocked, dealt |-> dealt]

\* deal() from its second line on
dealOut(S, R, P, seed) ==
    With(clearUnfinished(S, R, P), LAMBDA self :
      IF self.threw
      THEN DealResult(self.stock, self.rows, self.cards, TRUE, FALSE, FALSE)
      ELSE With(shuffled(self.stock, seed), LAMBDA shuffledStock :
             With(dealLoop(shuffledStock, self.rows, self.cards, 0), LAMBDA d :
               IF d.threw
               THEN DealResult(self.stock, d.rows, d.cards, TRUE, FALSE, FALSE)
               ELSE DealResult(d.stock, d.rows, d.cards, FALSE, FALSE, TRUE))))

\* deal() without its first line: the deal goes ahead whatever is movable
dealUnguarded(S, R, P, seed) == dealOut(S, R, P, seed)

\* deal() counting the deal before its first line: a blocked call counts too
dealCountingBlocked(S, R, P, seed) ==
    IF Len(getMovableCards(R, P)) > 0
    THEN DealResult(S, R, P, FALSE, TRUE, TRUE)
    ELSE dealOut(S, R, P, seed)

deal(S, R, P, seed) ==
    IF Len(getMovableCards(R, P)) > 0
    THEN DealResult(S, R, P, FALSE, TRUE, FALSE)
    ELSE dealOut(S, R, P, seed)

\* _swap without its last line: dest is not written to the cell card left
swapCardOnly(S, R, P, card, dest) ==
    With([P EXCEPT ![card] = P[dest], ![dest] = P[card]], LAMBDA P1 :
      IF P1[card].row = null
      THEN Result(S, R, P1, TRUE)
      ELSE Result(S, [R EXCEPT ![P1[card].row + 1] = SetAt(@, P1[card].column, card)], P1, FALSE))

\* Game._swap(card, dest)
swap(S, R, P, card, dest) ==
    With([P EXCEPT ![card] = P[dest], ![dest] = P[card]], LAMBDA P1 :
      IF P1[card].row = null
      THEN Result(S, R, P1, TRUE)
      ELSE With([R EXCEPT ![P1[card].row + 1] = SetAt(@, P1[card].column, card)], LAMBDA R1 :
             IF P1[dest].row = null
             THEN Result(S, R1, P1, TRUE)
             ELSE Result(S, [R1 EXCEPT ![P1[dest].row + 1] = SetAt(@, P1[dest].column, dest)],
                         P1, FALSE)))

\* blanks.filter((c) => c.column === 0).sort((a, b) => a.row - b.row): the
\* sort is stable, blanks is in catalog order
RECURSIVE sortByRow(_, _, _)
sortByRow(P, blanks, r) ==
    IF \A k \in 1..Len(blanks) : P[blanks[k]].row < r
    THEN <<>>
    ELSE SelectSeq(blanks, LAMBDA c : P[c].row = r) \o sortByRow(P, blanks, r + 1)

Reverse(seq) == [i \in 1..Len(seq) |-> seq[Len(seq) + 1 - i]]

\* the column-0 blanks sorted with the comparator turned round: (a, b) => b.row - a.row
blanksFirstColumnDescending(P) ==
    With(SelectSeq(getBlanks, LAMBDA c : P[c].column = 0), LAMBDA inFirstColumn :
      Reverse(sortByRow(P, Reverse(inFirstColumn), 0)))

blanksFirstColumn(P) ==
    With(SelectSeq(getBlanks, LAMBDA c : P[c].column = 0), LAMBDA inFirstColumn :
      sortByRow(P, inFirstColumn, 0))

\* Game.move(card), the branch of a 2
moveTwo(S, R, P, card) ==
    With(blanksFirstColumn(P), LAMBDA first :
      IF Len(first) > 0
      THEN IF P[card].column # 0
           THEN swap(S, R, P, card, first[1])
           ELSE With(SelectSeq(first, LAMBDA c : P[c].row > P[card].row),
                     LAMBDA blanksAfterCurrent :
                       IF Len(blanksAfterCurrent) > 0
                       THEN swap(S, R, P, card, blanksAfterCurrent[1])
                       ELSE swap(S, R, P, card, first[1]))
      ELSE Result(S, R, P, FALSE))

\* the branch of the other ranks without the test of dest.isBlank()
moveNonTwoOntoAnyCard(S, R, P, card) ==
    With(prevRank(card), LAMBDA nextLowest :
      IF P[nextLowest].row = null
      THEN Result(S, R, P, TRUE)
      ELSE IF P[nextLowest].column < Len(R[P[nextLowest].row + 1]) - 1
      THEN With(R[P[nextLowest].row + 1][P[nextLowest].column + 2], LAMBDA dest :
             IF ~IsCard(dest)
             THEN Result(S, R, P, TRUE)
             ELSE swap(S, R, P, card, dest))
      ELSE Result(S, R, P, FALSE))

\* Game.move(card), the branch of the other ranks
moveNonTwo(S, R, P, card) ==
    With(prevRank(card), LAMBDA nextLowest :
      IF P[nextLowest].row = null
      THEN Result(S, R, P, TRUE)
      ELSE IF P[nextLowest].column < Len(R[P[nextLowest].row + 1]) - 1
      THEN With(R[P[nextLowest].row + 1][P[nextLowest].column + 2], LAMBDA dest :
             IF ~IsCard(dest)
             THEN Result(S, R, P, TRUE)
             ELSE IF isBlank(dest)
             THEN swap(S, R, P, card, dest)
             ELSE Result(S, R, P, FALSE))
      ELSE Result(S, R, P, FALSE))

\* Game.move(card), for a card that is not a blank
move(S, R, P, card) ==
    IF rank(card) = "2" THEN moveTwo(S, R, P, card) ELSE moveNonTwo(S, R, P, card)

-----------------------------------------------------------------------------
(* The engine as a state machine: the calls a session makes on the current  *)
(* game, each within a budget of calls                                      *)

Seeds == 0..MaxSeed

\* returned: "this" when the call returned the Game it was called on, "clone"
\* when it returned another Game object, "none" when it threw
Called(op, card, threw, returned) ==
    [op |-> op, card |-> card, threw |-> threw, returned |-> IF threw THEN "none" ELSE returned]

\* React.useState(new Game()), with the catalog as the class definitions built it
Init ==
    /\ stock = all
    /\ rows = <<<<>>, <<>>, <<>>, <<>>>>
    /\ cards = [c \in Card |-> [row |-> null, column |-> null]]
    /\ deals = 0
    /\ call = Called("new", null, FALSE, "clone")
    /\ thisRows = rows
    /\ ncalls = 0

\* new Game(): a fresh stock, rows and meta over the same Deck.CARDS
NewGame(budget) ==
    /\ ncalls < budget
    /\ stock' = all
    /\ rows' = <<<<>>, <<>>, <<>>, <<>>>>
    /\ deals' = 0
    /\ call' = Called("new", null, FALSE, "clone")
    /\ thisRows' = rows'
    /\ ncalls' = ncalls + 1
    /\ UNCHANGED cards

\* game.deal()
Deal(budget) ==
    /\ ncalls < budget
    /\ \E seed \in Seeds : \E d \in {deal(stock, rows, cards, seed)} :
             /\ stock' = d.stock
             /\ rows' = d.rows
             /\ cards' = d.cards
             /\ deals' = IF d.dealt THEN deals + 1 ELSE deals
             /\ call' = Called("deal", null, d.threw, IF d.blocked THEN "this" ELSE "clone")
             /\ thisRows' = IF d.blocked THEN rows ELSE SeenThroughThis(_clone.rows, rows, d.rows)
    /\ ncalls' = ncalls + 1

\* game.clearUnfinished()
ClearUnfinished(budget) ==
    /\ ncalls < budget
    /\ \E self \in {clearUnfinished(stock, rows, cards)} :
           /\ stock' = self.stock
           /\ rows' = self.rows
           /\ cards' = self.cards
           /\ call' = Called("clearUnfinished", null, self.threw, "clone")
           /\ thisRows' = SeenThroughThis(_clone.rows, rows, self.rows)
    /\ ncalls' = ncalls + 1
    /\ UNCHANGED deals

MoveCall(card, budget) ==
    /\ ncalls < budget
    /\ \E self \in {move(stock, rows, cards, card)} :
           /\ stock' = self.stock
           /\ rows' = self.rows
           /\ cards' = self.cards
           /\ call' = Called("move", card, self.threw, "clone")
           /\ thisRows' = SeenThroughThis(_clone.rows, rows, self.rows)
    /\ ncalls' = ncalls + 1
    /\ UNCHANGED deals

\* game.move(card) for a card getMovableCards() reports
Move(budget) ==
    \E card \in Elems(getMovableCards(rows, cards)) : MoveCall(card, budget)

\* game.move(card) for any other card that is not a blank
MoveOther(budget) ==
    \E card \in Card \ Elems(getMovableCards(rows, cards)) :
        /\ ~isBlank(card)
        /\ MoveCall(card, budget)

\* The player's session: New Game, Deal, Clear unset, and moves of movable cards
Next ==
    \/ NewGame(MaxCalls)
    \/ Deal(MaxCalls)
    \/ ClearUnfinished(MaxCalls)
    \/ Move(MaxCalls)

Spec == Init /\ [][Next]_vars

\* A session of direct calls: move is also called on cards not reported movable
NextApi ==
    \/ NewGame(MaxApiCalls)
    \/ Deal(MaxApiCalls)
    \/ ClearUnfinished(MaxApiCalls)
    \/ Move(MaxApiCalls)
    \/ MoveOther(MaxApiCalls)

SpecApi == Init /\ [][NextApi]_vars

-----------------------------------------------------------------------------
(* Properties *)

RowIndexes == 0..(Len(rows) - 1)
ColumnIndexes == 0..(RowLength - 1)

\* the card object in cell (r, k) of the grid, undefined where there is none
Cell(R, r, k) == At(R[r + 1], k)

SumRowLengths(R) == Len(R[1]) + Len(R[2]) + Len(R[3]) + Len(R[4])

Movable == Elems(getMovableCards(rows, cards))

FullyDealt == stock = <<>> /\ \A r \in RowIndexes : Len(rows[r + 1]) = RowLength

\* C1: in every reachable state the number of cards in the stock plus the
\* lengths of the four rows is 52
CardCountIs52 == Len(stock) + SumRowLengths(rows) = 52

\* C2: in every reachable state a card has the position (r, k) exactly when
\* cell (r, k) holds that card, no two cards share a position, and every card
\* of the stock has the null position
PositionGridConsistent ==
    /\ \A c \in Card : \A r \in RowIndexes : \A k \in ColumnIndexes :
         (cards[c].row = r /\ cards[c].column = k) <=> Cell(rows, r, k) = c
    /\ \A c1, c2 \in Card :
         (c1 # c2 /\ cards[c1].row # null) => cards[c1] # cards[c2]
    /\ \A i \in 1..Len(stock) :
         IsCard(stock[i]) /\ cards[stock[i]].row = null /\ cards[stock[i]].column = null

\* C3: a deal() called while getMovableCards() is not empty returns the Game it
\* was called on and leaves stock, rows, every card position and meta.deals as
\* they were
DealBlockedWhenMovable ==
    [][(call'.op = "deal" /\ Movable # {})
        => (/\ call'.returned = "this"
            /\ stock' = stock
            /\ rows' = rows
            /\ cards' = cards
            /\ deals' = deals)]_vars

\* C3 witness: a dealt board with a movable card on which deal() returned this
DealWasBlocked ==
    /\ call.op = "deal"
    /\ call.returned = "this"
    /\ Movable # {}
    /\ FullyDealt

\* the step is a call of op
Calls(op) == call'.op = op /\ ncalls' = ncalls + 1

AllRowsFull(R) == \A r \in 1..Len(R) : Len(R[r]) = RowLength

\* cell (r, k) holds the card of its row's suit whose rank belongs in column k
InPlace(R, r, k) ==
    /\ k < Len(RANKS)
    /\ IsCard(Cell(R, r, k))
    /\ IsCard(Cell(R, r, 0))
    /\ rank(Cell(R, r, k)) = RANKS[k + 1]
    /\ suit(Cell(R, r, k)) = suit(Cell(R, r, 0))

\* the cells of the finalized prefixes: a row's run from its 2 in column 0 up
\* in rank, in one suit
FinalizedCells(R) ==
    {rk \in RowIndexes \X ColumnIndexes : \A j \in 0..rk[2] : InPlace(R, rk[1], j)}

\* C4: deal() on a freshly constructed Game (the stock holds all 52 cards, the
\* four rows are empty), the first game or a later one, leaves four rows of 13
\* cards and an empty stock
FreshDealFillsBoard ==
    [][(Calls("deal") /\ call.op = "new" /\ stock = all /\ \A r \in RowIndexes : rows[r + 1] = <<>>)
        => (stock' = <<>> /\ AllRowsFull(rows'))]_vars

\* C5: a deal() called while getMovableCards() is empty does not throw and
\* leaves an empty stock, four rows of 13 cards, every card of the grid with
\* the position of its cell, and every finalized cell holding the card it held
DealSucceedsWhenNothingMovable ==
    [][(Calls("deal") /\ Movable = {})
        => (/\ ~call'.threw
            /\ stock' = <<>>
            /\ AllRowsFull(rows')
            /\ \A r \in RowIndexes : \A k \in ColumnIndexes :
                 /\ IsCard(Cell(rows', r, k))
                 /\ cards'[Cell(rows', r, k)] = [row |-> r, column |-> k]
            /\ \A rk \in FinalizedCells(rows) :
                 Cell(rows', rk[1], rk[2]) = Cell(rows, rk[1], rk[2]))]_vars

\* C6: move(card) for a card that is neither a 2 nor a blank and whose
\* predecessor has the null position does not throw and leaves stock, rows and
\* every card position as they were
UndealtPredecessorMoveIsNoOp ==
    [][(/\ Calls("move")
        /\ rank(call'.card) # "2"
        /\ ~isBlank(call'.card)
        /\ cards[prevRank(call'.card)].row = null)
        => (/\ ~call'.threw
            /\ stock' = stock
            /\ rows' = rows
            /\ cards' = cards)]_vars

\* the card has a position
OnBoard(c) == cards[c].row # null /\ cards[c].column # null

BlankCards == {c \in Card : isBlank(c)}

\* the cell holds a card that is not a blank
HoldsNonBlank(r, k) == IsCard(Cell(rows, r, k)) /\ ~isBlank(Cell(rows, r, k))

\* the cell holds a blank
HoldsBlank(r, k) == IsCard(Cell(rows, r, k)) /\ isBlank(Cell(rows, r, k))

NonTwo(c) == IsCard(c) /\ ~isBlank(c) /\ rank(c) # "2"

\* the predecessor of c is dealt and is the last of its row
PredecessorInLastColumn(c) ==
    /\ OnBoard(prevRank(c))
    /\ cards[prevRank(c)].column = Len(rows[cards[prevRank(c)].row + 1]) - 1

\* the predecessor of c is dealt and the cell to its right holds a card that
\* is not a blank
PredecessorRightIsTaken(c) ==
    /\ OnBoard(prevRank(c))
    /\ HoldsNonBlank(cards[prevRank(c)].row, cards[prevRank(c)].column + 1)

NoBlankInColumn0 == \A b \in BlankCards : ~(OnBoard(b) /\ cards[b].column = 0)

IllegalMove(c) ==
    \/ NonTwo(c) /\ (PredecessorInLastColumn(c) \/ PredecessorRightIsTaken(c))
    \/ IsCard(c) /\ rank(c) = "2" /\ NoBlankInColumn0

\* C7: on a fully dealt board, move(card) for a non-2 card whose predecessor
\* is in the last column or has a non-blank card to its right, or for a 2 when
\* no blank is in column 0, does not throw and leaves stock, rows, every card
\* position and meta.deals as they were
IllegalMovesAbsorbed ==
    [][(Calls("move") /\ FullyDealt /\ IllegalMove(call'.card))
        => (/\ ~call'.threw
            /\ stock' = stock
            /\ rows' = rows
            /\ cards' = cards
            /\ deals' = deals)]_vars

\* C7 witness: on a fully dealt board move was called for a card whose
\* predecessor is in the last column, and returned
LastColumnMoveAbsorbed ==
    /\ call.op = "move"
    /\ ~call.threw
    /\ FullyDealt
    /\ NonTwo(call.card)
    /\ PredecessorInLastColumn(call.card)

\* the cards the derivation of the movable set names: the four 2s when a blank
\* with a position is in column 0, and the successor of the left neighbour of
\* every blank with a position in a later column, when that neighbour is a
\* card, not a blank and not a king
LeftNeighbours ==
    {Cell(rows, cards[b].row, cards[b].column - 1) :
        b \in {x \in BlankCards : OnBoard(x) /\ cards[x].column > 0}}

ExpectedMovable ==
    (IF NoBlankInColumn0 THEN {} ELSE {c \in Card : ~isBlank(c) /\ rank(c) = "2"})
    \cup {nextRank(l) : l \in {x \in LeftNeighbours : IsCard(x) /\ ~isBlank(x) /\ rank(x) # "K"}}

\* C10: getMovableCards() holds each card once and holds exactly the four 2s
\* if a blank with a position is in column 0 and, for each blank with a
\* position in a later column whose left neighbour is a non-blank card other
\* than a king, that neighbour's successor
MovableIsExactlyDerived ==
    /\ Movable = ExpectedMovable
    /\ Cardinality(Movable) = Len(getMovableCards(rows, cards))

\* C10 witness: two blanks in column 0 each name the four 2s, and a blank in
\* a later column names the successor of its left neighbour
MovableTwosAndSuccessors ==
    /\ Cardinality({b \in BlankCards : OnBoard(b) /\ cards[b].column = 0}) >= 2
    /\ \E x \in LeftNeighbours : IsCard(x) /\ ~isBlank(x) /\ rank(x) # "K"
    /\ Cardinality(Movable) > 4

\* the step puts card x in cell (r, k) and card t in the cell x had, and leaves
\* every other cell, every other card's position, the stock and meta.deals
IsSwap(x, t, r, k) ==
    /\ OnBoard(x)
    /\ Cell(rows', r, k) = x
    /\ cards'[x] = [row |-> r, column |-> k]
    /\ Cell(rows', cards[x].row, cards[x].column) = t
    /\ cards'[t] = cards[x]
    /\ \A r2 \in RowIndexes : \A k2 \in ColumnIndexes :
         (<<r2, k2>> # <<r, k>> /\ <<r2, k2>> # <<cards[x].row, cards[x].column>>)
           => Cell(rows', r2, k2) = Cell(rows, r2, k2)
    /\ \A c \in Card \ {x, t} : cards'[c] = cards[c]
    /\ stock' = stock
    /\ deals' = deals

\* the predecessor of c is dealt and the cell to its right holds a blank
PredecessorRightIsBlank(c) ==
    /\ OnBoard(prevRank(c))
    /\ HoldsBlank(cards[prevRank(c)].row, cards[prevRank(c)].column + 1)

\* C8: when the cell to the right of the predecessor of a non-2 card X holds a
\* blank, move(X) does not throw, puts X in that cell and that blank in the
\* cell X had, and leaves every other cell, every other card's position, the
\* stock and meta.deals as they were
LegalNonTwoMoveIsSwap ==
    [][(Calls("move") /\ NonTwo(call'.card) /\ PredecessorRightIsBlank(call'.card))
        => (/\ ~call'.threw
            /\ IsSwap(call'.card,
                      Cell(rows, cards[prevRank(call'.card)].row, cards[prevRank(call'.card)].column + 1),
                      cards[prevRank(call'.card)].row,
                      cards[prevRank(call'.card)].column + 1))]_vars

\* C8 witness: a non-2 card was moved to the right of its predecessor, and a
\* blank holds a cell away from it
NonTwoMoved ==
    /\ call.op = "move"
    /\ ~call.threw
    /\ NonTwo(call.card)
    /\ OnBoard(call.card)
    /\ OnBoard(prevRank(call.card))
    /\ cards[call.card].row = cards[prevRank(call.card)].row
    /\ cards[call.card].column = cards[prevRank(call.card)].column + 1
    /\ Cell(rows, cards[call.card].row, cards[call.card].column) = call.card
    /\ FullyDealt

\* the blanks with a position in column 0
Column0Blanks == {b \in BlankCards : OnBoard(b) /\ cards[b].column = 0}

\* the blanks of set that no blank of set has a lower row than
LowestRow(set) == {b \in set : \A o \in set : cards[b].row <= cards[o].row}

\* the column-0 blanks move(two) may swap the 2 with: (a) the lowest of all when
\* the 2 is not in column 0, (b) the lowest of those below the 2 when the 2 is
\* in column 0, (c) the lowest of all when none is below it
TwoTargets(two) ==
    IF cards[two].column # 0
    THEN LowestRow(Column0Blanks)
    ELSE IF \E b \in Column0Blanks : cards[b].row > cards[two].row
    THEN LowestRow({b \in Column0Blanks : cards[b].row > cards[two].row})
    ELSE LowestRow(Column0Blanks)

\* C9: when a blank with a position is in column 0, move(two) swaps the 2 with
\* the column-0 blank the rule selects and changes no other cell
TwoMoveSelectsTarget ==
    [][(Calls("move") /\ IsCard(call'.card) /\ rank(call'.card) = "2" /\ Column0Blanks # {})
        => (/\ ~call'.threw
            /\ \E t \in TwoTargets(call'.card) :
                 IsSwap(call'.card, t, cards[t].row, cards[t].column))]_vars

\* C9 witness: a 2 of column 0 was moved down to the next column-0 blank: the
\* blank it left behind is in column 0 of a row above it
TwoMovedDown ==
    /\ call.op = "move"
    /\ ~call.threw
    /\ rank(call.card) = "2"
    /\ OnBoard(call.card)
    /\ cards[call.card].column = 0
    /\ Cell(rows, cards[call.card].row, 0) = call.card
    /\ \E b \in Column0Blanks :
         cards[b].row < cards[call.card].row /\ Cell(rows, cards[b].row, 0) = b
    /\ FullyDealt

\* the cards in the cells of the runs that start with a 2 at the head of a row
\* and go up rank by rank in one suit
FinalizedRunCards == {Cell(rows, rk[1], rk[2]) : rk \in FinalizedCells(rows)}

\* C11: getFinalizedCards() returns exactly the cards X in a cell (r, c) such
\* that cells (r, 0)..(r, c) hold the ranks 2, 3, ... of one suit; rows that
\* are empty or do not start with a 2 give nothing, and no blank is in the set
FinalizedIsExactlyRuns ==
    /\ ~getFinalizedCards(rows, cards).threw
    /\ getFinalizedCards(rows, cards).set = FinalizedRunCards
    /\ \A c \in getFinalizedCards(rows, cards).set : ~isBlank(c)

\* the same, for the calls that return
FinalizedIsExactlyRunsWhenReturned ==
    ~getFinalizedCards(rows, cards).threw
      => getFinalizedCards(rows, cards).set = FinalizedRunCards

\* a run of two cards in one row beside a row that does not start with a 2
FinalizedRunOfTwo ==
    /\ \E rk \in FinalizedCells(rows) : rk[2] >= 1
    /\ \E r \in RowIndexes : Len(rows[r + 1]) = RowLength /\ <<r, 0>> \notin FinalizedCells(rows)
    /\ ~getFinalizedCards(rows, cards).threw

\* what a second clearUnfinished() leaves, called right after a first
ClearedOnce == clearUnfinished(stock, rows, cards)

ClearedTwice ==
    With(ClearedOnce, LAMBDA once : clearUnfinished(once.stock, once.rows, once.cards))

\* C12: from every reachable state, clearUnfinished() called twice in a row
\* leaves the rows, the stock and the card positions that one call leaves
ClearUnfinishedIdempotent ==
    /\ ClearedTwice.rows = ClearedOnce.rows
    /\ ClearedTwice.stock = ClearedOnce.stock
    /\ ClearedTwice.cards = ClearedOnce.cards

\* C12 witness: a full board with a finalized run, which a first
\* clearUnfinished() cuts down to its runs and a second one meets
ClearCutsRows ==
    /\ FullyDealt
    /\ FinalizedCells(rows) # {}
    /\ ~ClearedOnce.threw
    /\ ClearedOnce.rows # rows
    /\ ~ClearedTwice.threw

\* the number of cells of row r in its finalized run
RunLength(R, r) == Cardinality({k \in ColumnIndexes : \A j \in 0..k : InPlace(R, r, j)})

\* the entries of the rows that are outside the finalized runs
UnfinishedCells == {rk \in RowIndexes \X ColumnIndexes :
                      rk[2] < Len(rows[rk[1] + 1]) /\ rk \notin FinalizedCells(rows)}

\* C13: clearUnfinished() leaves in each row exactly its finalized run, in the
\* cells it had; every other card of the rows is appended to the stock and has
\* the null position; getFinalizedCards() returns the same set before and after
ClearUnfinishedEffect ==
    [][Calls("clearUnfinished")
        => (/\ \A r \in RowIndexes : rows'[r + 1] = SliceTo(rows[r + 1], RunLength(rows, r))
            /\ Len(stock') = Len(stock) + Cardinality(UnfinishedCells)
            /\ SliceTo(stock', Len(stock)) = stock
            /\ \A rk \in UnfinishedCells :
                 /\ IsCard(Cell(rows, rk[1], rk[2]))
                 /\ \E i \in (Len(stock) + 1)..Len(stock') : stock'[i] = Cell(rows, rk[1], rk[2])
                 /\ cards'[Cell(rows, rk[1], rk[2])] = [row |-> null, column |-> null]
            /\ \A rk \in FinalizedCells(rows) :
                 cards'[Cell(rows, rk[1], rk[2])] = [row |-> rk[1], column |-> rk[2]]
            /\ ~getFinalizedCards(rows, cards).threw
            /\ ~getFinalizedCards(rows', cards').threw
            /\ getFinalizedCards(rows', cards').set = getFinalizedCards(rows, cards).set)]_vars

\* C14: a card of getFinalizedCards() is still in that set and in the same
\* cell after a move of a movable card, a deal() or a clearUnfinished()
FinalizedStayInPlace ==
    [][(call'.op \in {"move", "deal", "clearUnfinished"} /\ ~getFinalizedCards(rows, cards).threw)
        => (/\ ~getFinalizedCards(rows', cards').threw
            /\ \A c \in getFinalizedCards(rows, cards).set :
                 /\ c \in getFinalizedCards(rows', cards').set
                 /\ cards'[c] = cards[c]
                 /\ Cell(rows', cards[c].row, cards[c].column) = c)]_vars

\* the cells of row r that hold a blank
BlankCells(r) == {k \in ColumnIndexes : HoldsBlank(r, k)}

BlanksOnBoard == {rk \in RowIndexes \X ColumnIndexes : HoldsBlank(rk[1], rk[2])}

\* C15: on a fully dealt board exactly 4 blanks are on the board and each row
\* holds exactly one of them
OneBlankPerRow ==
    FullyDealt =>
        /\ Cardinality(BlanksOnBoard) = 4
        /\ \A r \in RowIndexes : Cardinality(BlankCells(r)) = 1

\* C15 as amended: on a fully dealt board exactly 4 blanks are on the board,
\* each of the 4 blank cards in one cell
FourBlanksOnBoard ==
    FullyDealt =>
        /\ Cardinality(BlanksOnBoard) = 4
        /\ \A b \in BlankCards : \E rk \in BlanksOnBoard : Cell(rows, rk[1], rk[2]) = b

\* C15 witness: a fully dealt board after a move, with a row of two blanks and
\* a row of none
BlanksUnevenAfterMove ==
    /\ FullyDealt
    /\ call.op = "move"
    /\ ~call.threw
    /\ \E r \in RowIndexes : Cardinality(BlankCells(r)) = 2
    /\ \E r \in RowIndexes : Cardinality(BlankCells(r)) = 0

RankSet == {RANKS[i] : i \in 1..Len(RANKS)}
SuitSet == {SUITS[i] : i \in 1..Len(SUITS)}

\* the card objects the current game holds, in its stock or in its rows
CardsInGame == (Elems(stock) \cup {Cell(rows, r, k) : r \in RowIndexes, k \in ColumnIndexes}) \cap Card

\* C17: the catalog a game holds has 52 cards, one for each of the 12 ranks in
\* each of the 4 suits and 4 blanks; nextRank and prevRank are inverse to each
\* other within a suit wherever they name a card, one rank apart; a K has no
\* nextRank, a 2 no prevRank, a blank neither
CatalogStructure ==
    \A catalog \in {CardsInGame} :
        /\ Len(CARDS) = 52
        /\ Cardinality(catalog) = 52
        /\ Cardinality(RankSet) = 12 /\ Cardinality(SuitSet) = 4
        /\ \A r \in RankSet : \A u \in SuitSet :
             Cardinality({c \in catalog : rank(c) = r /\ suit(c) = u}) = 1
        /\ Cardinality({c \in catalog : ~isBlank(c)}) = 48
        /\ Cardinality({c \in catalog : isBlank(c)}) = 4
        /\ \A c \in catalog :
             /\ IsCard(nextRank(c)) =>
                  /\ prevRank(nextRank(c)) = c
                  /\ suit(nextRank(c)) = suit(c)
                  /\ IndexOf(RANKS, rank(nextRank(c))) = IndexOf(RANKS, rank(c)) + 1
             /\ IsCard(prevRank(c)) =>
                  /\ nextRank(prevRank(c)) = c
                  /\ suit(prevRank(c)) = suit(c)
             /\ (~isBlank(c) /\ rank(c) # "K") => IsCard(nextRank(c))
             /\ (~isBlank(c) /\ rank(c) # "2") => IsCard(prevRank(c))
             /\ rank(c) = "K" => ~IsCard(nextRank(c))
             /\ rank(c) = "2" => ~IsCard(prevRank(c))
             /\ isBlank(c) => (~IsCard(nextRank(c)) /\ ~IsCard(prevRank(c)))

\* C17 witness: in play, a blank right of a king names no card, and a card
\* moved next to its predecessor is the successor of its left neighbour
LinksUsedInPlay ==
    /\ call.op = "move"
    /\ NonTwo(call.card)
    /\ OnBoard(call.card)
    /\ cards[call.card].column > 0
    /\ IsCard(Cell(rows, cards[call.card].row, cards[call.card].column - 1))
    /\ nextRank(Cell(rows, cards[call.card].row, cards[call.card].column - 1)) = call.card
    /\ \E x \in LeftNeighbours : IsCard(x) /\ rank(x) = "K"

MoveChangesGrid(c) == move(stock, rows, cards, c).rows # rows

\* the call that left self returned with c in a cell that held a blank
LandsInBlank(self, c) ==
    /\ ~self.threw
    /\ \E r \in RowIndexes : \E k \in ColumnIndexes :
         HoldsBlank(r, k) /\ Cell(self.rows, r, k) = c

\* C19: on a fully dealt board, for every card c that is not a blank, move(c)
\* changes the grid exactly when c is in getMovableCards(), and then c lands
\* in a cell that held a blank
MovableIffMoveChangesGrid ==
    FullyDealt =>
        \A movable \in {Movable} : \A c \in Card \ BlankCards :
            \A self \in {move(stock, rows, cards, c)} :
                /\ (self.rows # rows) <=> c \in movable
                /\ c \in movable => LandsInBlank(self, c)

\* C19 witness: a fully dealt board reached by a move, on which a 2 and
\* another card are movable, and a card that is not movable stays where it is
MovableAndNotAfterMove ==
    /\ FullyDealt
    /\ call.op = "move"
    /\ \E c \in Movable : rank(c) = "2"
    /\ \E c \in Movable : NonTwo(c)
    /\ \E c \in Card \ BlankCards : c \notin Movable /\ ~MoveChangesGrid(c)

\* the cards in the cells of R
GridCards(R) == {Cell(R, r, k) : r \in 0..(Len(R) - 1), k \in ColumnIndexes} \cap Card

\* the cards of the rows outside the finalized runs
UnfinishedCards == {Cell(rows, rk[1], rk[2]) : rk \in UnfinishedCells} \cap Card

\* C20: a deal(), clearUnfinished() or move() called while getMovableCards()
\* is not empty leaves every non-finalized card of the rows in the rows and
\* adds nothing to the stock
NoReshuffleWhileMovable ==
    [][(call'.op \in {"deal", "clearUnfinished", "move"} /\ Movable # {})
        => (/\ UnfinishedCards \subseteq GridCards(rows')
            /\ stock' = stock)]_vars

\* the games one move of a card of getMovableCards() away from the game self
MovesFrom(self) ==
    {move(self.stock, self.rows, self.cards, c) :
        c \in Elems(getMovableCards(self.rows, self.cards))}

\* the games two consecutive moves of movable cards away from the current game
TwoMovesOn == UNION {MovesFrom(self) : self \in MovesFrom(Result(stock, rows, cards, FALSE))}

\* C21: every sequence of consecutive moves of movable cards on a fully dealt
\* board is finite; a sequence that brings back a board it has left can be
\* repeated for ever, so no two consecutive moves of movable cards lead from
\* a fully dealt board back to the same board
MovesRunOut ==
    FullyDealt => \A self \in TwoMovesOn : self.rows # rows

\* C22: in every reachable state, also right after new Game(), every card of
\* getMovableCards() is a card that is not a blank and is in a cell of the
\* rows of the current game
MovableCardsAreOnBoard ==
    \A c \in Movable : c \in Card /\ ~isBlank(c) /\ c \in GridCards(rows)

====
